---- MODULE Spec2Model ----
(***************************************************************************)
(* A model of hijacknet's server side: HijackServer._handle_client, the    *)
(* HijackLobby it fills and the HijackClient objects it creates.           *)
(*                                                                         *)
(* asyncio runs every task on one thread and switches tasks only at an     *)
(* await that really suspends, so one action of the model is the code of   *)
(* one task between two suspension points.                                 *)
(***************************************************************************)
EXTENDS Integers, Sequences, FiniteSets, TLC

\* Number of streams the listener accepts in one run of the model.
NumConns == 3

\* The lobby size the example handlers wait for (len(lobby.members) == 2).
LobbySize == 2

Conns == 1..NumConns

\* Number of calls of HijackServer.run the model makes.
NumRuns == 3

Runs == 1..NumRuns

\* The names and lobby ids clients present (connect(name, lobby)).
Names == {"alice", "bob", "carol"}
LobbyIds == {"test", "t"}

\* A key a JSON object does not have.
Absent == "<absent>"

(***************************************************************************)
(* The first line of a stream: its text and whether the b'\n' arrived      *)
(* before end of input. A text is a JSON object with an optional "name"    *)
(* and an optional "lobby", the JSON value null, a JSON string, something  *)
(* json.loads rejects, or nothing at all.                                  *)
(***************************************************************************)
Object(name, lobby) == [type |-> "object", name |-> name, lobby |-> lobby]

\* The identity objects, and objects that lack "name", "lobby" or both.
Objects ==
  {Object(n, l) : n \in Names, l \in LobbyIds}
    \cup {Object(Absent, "test"), Object("alice", Absent), Object(Absent, Absent)}

Scalar(t) == [type |-> t, name |-> Absent, lobby |-> Absent]

Texts == Objects \cup {Scalar("null"), Scalar("string"), Scalar("garbage"), Scalar("empty")}

Lines ==
  [text : Texts, newline : {TRUE}]
    \cup [text : {Scalar("empty"), Object("alice", "test")},
          newline : {FALSE}]

\* Python's None, as a value read_message returns and as _starting_metadata.
PyNone == Scalar("null")
RawNone == Scalar("<None>")
Unset == Scalar("<unset>")
NoRoster == [state |-> "<None>", others |-> <<>>]
NoError == "<none>"

\* connect() has not returned: there is no client object yet.
ClientPending == [state |-> "<pending>", others |-> <<>>]

VARIABLES
  pc,                 \* where the _handle_client task of each stream stands
  err,                \* the exception that ended the task, if one did
  metadata,           \* HijackClient._metadata
  starting_metadata,  \* HijackClient._starting_metadata
  building_lobbies,   \* HijackServer._building_lobbies: lobby id -> lobby object
  lobbies,            \* the HijackLobby objects created so far
  lobby,              \* the local variable lobby of each task (0: not bound)
  gather_tasks,       \* the sends the task's asyncio.gather waits for
  sendState,          \* each send_starting_metadata coroutine
  sendArg,            \* its argument others
  wire,               \* what the server has written to each stream
  run_lobby_calls,    \* the calls of handler.run_lobby made so far
  closeIdx,           \* position of the task in "for i in lobby"
  closed,             \* streams whose transport has been closed
  active,             \* lobby objects for which check_lobby_complete returned True
  client_sm,          \* client side: _starting_metadata of the object connect() returned
  sock,               \* HijackServer._sock (0: None)
  run_pc,             \* where each call of HijackServer.run stands
  listeners,          \* the listeners asyncio.start_server has started
  resent,             \* members whose send_starting_metadata the runner called again
  current,            \* the task the event loop is running (0: none)
  checks,             \* how often check_lobby_complete was called for each task
  peer_closed         \* streams whose remote end has gone away

\* What the connection-handling actions below leave alone.
aux == <<client_sm, sock, run_pc, listeners, resent, current, checks, peer_closed>>

vars == <<pc, err, metadata, starting_metadata, building_lobbies, lobbies, lobby,
          gather_tasks, sendState, sendArg, wire, run_lobby_calls, closeIdx, closed, active,
          client_sm, sock, run_pc, listeners, resent, current, checks, peer_closed>>

----------------------------------------------------------------------------
(* HijackClient *)

\* readline() returns what arrived; a result that does not end in a newline
\* (the empty result included) is end of input.
read_message_raw(line) == IF ~line.newline THEN RawNone ELSE line.text

json_loads(text) ==
  [raised |-> text.type \in {"garbage", "empty"},
   value  |-> IF text.type \in {"object", "string"} THEN text ELSE PyNone]

read_message(line) ==
  LET msg_raw == read_message_raw(line) IN
  IF msg_raw = RawNone THEN [raised |-> FALSE, value |-> PyNone]
  ELSE json_loads(msg_raw)

\* self._metadata[key], as the properties name and lobby evaluate it.
GetItem(md, key) ==
  [raised |-> md.type # "object" \/ md[key] = Absent,
   error  |-> IF md.type # "object" THEN "TypeError" ELSE "KeyError",
   value  |-> md[key]]

\* {"state": "starting", "others": others}
StartingMetadata(others) == [state |-> "starting", others |-> others]

send_starting_metadata_NoGuard(current_sm, others) ==
  [raised |-> FALSE,
   starting_metadata |-> StartingMetadata(others),
   written |-> <<StartingMetadata(others)>>]

\* send_starting_metadata up to its drain(): whether it raised, the
\* _starting_metadata it leaves and the lines it wrote.
send_starting_metadata(current_sm, others) ==
  IF current_sm # NoRoster
  THEN [raised |-> TRUE, starting_metadata |-> current_sm, written |-> <<>>]
  ELSE [raised |-> FALSE,
        starting_metadata |-> StartingMetadata(others),
        written |-> <<StartingMetadata(others)>>]

----------------------------------------------------------------------------
(* HijackLobby: _members is a dict, kept here in insertion order as a       *)
(* sequence of [key, remote]                                                *)

HijackLobby(lobby_id) == [lobby_id |-> lobby_id, members |-> <<>>]

Keys(members) == {members[i].key : i \in DOMAIN members}

Remotes(members) == {members[i].remote : i \in DOMAIN members}

add_remote_Overwrite(members, name, remote) ==
  [raised  |-> name \in Keys(members),
   members |-> IF name \in Keys(members)
               THEN [i \in DOMAIN members |->
                       IF members[i].key = name THEN [key |-> name, remote |-> remote]
                       ELSE members[i]]
               ELSE Append(members, [key |-> name, remote |-> remote])]

add_remote_NoCheck(members, name, remote) ==
  [raised  |-> FALSE,
   members |-> add_remote_Overwrite(members, name, remote).members]

add_remote(members, name, remote) ==
  IF name \in Keys(members)
  THEN [raised |-> TRUE, members |-> members]
  ELSE [raised |-> FALSE, members |-> Append(members, [key |-> name, remote |-> remote])]

\* filter(lambda i: i.name != excluded, self._members.values()); md gives
\* each client's _metadata.
get_other_members_All(members, excluded, md) == members

get_other_members(members, excluded, md) ==
  SelectSeq(members, LAMBDA i : md[i.remote].name # excluded)

\* list(i.name for i in lobby.get_other_members(remote))
OtherNames(members, remote, md) ==
  LET others == get_other_members(members, md[remote].name, md) IN
  [i \in DOMAIN others |-> md[others[i].remote].name]

check_lobby_complete_Live(members) ==
  Cardinality({i \in DOMAIN members : members[i].remote \notin peer_closed}) = LobbySize

\* The example handlers: len(lobby.members) == 2.
check_lobby_complete(members) == Len(members) = LobbySize

----------------------------------------------------------------------------
(* HijackServer *)

NotReady_Inverted(members) == check_lobby_complete(members)

\* if not self._handler.check_lobby_complete(lobby): return
NotReady(members) == ~check_lobby_complete(members)

\* dict.setdefault(key, new): the table afterwards.
setdefault(table, key, new) ==
  IF key \in DOMAIN table THEN table
  ELSE [k \in DOMAIN table \cup {key} |-> IF k = key THEN new ELSE table[k]]

RemoveFromPending_Keep(table, key) == table

\* del self._building_lobbies[remote.lobby]
RemoveFromPending(table, key) == [k \in DOMAIN table \ {key} |-> table[k]]

\* An exception that leaves _handle_client ends the task asyncio made for the
\* client_connected_cb. The code closes nothing on that path; whether the
\* stream's transport is then closed is up to the asyncio in use (its done
\* callback closes it from Python 3.12 on, earlier versions leave it open).
AfterTaskError(c) == {closed, closed \cup {c}}

Init ==
  /\ pc = [c \in Conns |-> "unconnected"]
  /\ err = [c \in Conns |-> NoError]
  /\ metadata = [c \in Conns |-> Unset]
  /\ starting_metadata = [c \in Conns |-> NoRoster]
  /\ building_lobbies = [k \in {} |-> 0]
  /\ lobbies = <<>>
  /\ lobby = [c \in Conns |-> 0]
  /\ gather_tasks = [c \in Conns |-> {}]
  /\ sendState = [c \in Conns |-> "none"]
  /\ sendArg = [c \in Conns |-> <<>>]
  /\ wire = [c \in Conns |-> <<>>]
  /\ run_lobby_calls = <<>>
  /\ closeIdx = [c \in Conns |-> 0]
  /\ closed = {}
  /\ active = {}
  /\ client_sm = [c \in Conns |-> ClientPending]
  /\ sock = 0
  /\ run_pc = [r \in Runs |-> "idle"]
  /\ listeners = [r \in {} |-> "open"]
  /\ resent = {}
  /\ current = 0
  /\ checks = [c \in Conns |-> 0]
  /\ peer_closed = {}

\* The listener accepts a stream and starts _handle_client for it, which
\* constructs the HijackClient and suspends reading the first line. A task
\* in that state shares nothing with the others, so the streams are numbered
\* in the order their first lines arrive, and accepted in that order.
Accept(c) ==
  /\ pc[c] = "unconnected"
  /\ \A d \in Conns : d < c => pc[d] # "unconnected"
  /\ pc' = [pc EXCEPT ![c] = "handshake"]
  /\ UNCHANGED <<err, metadata, starting_metadata, building_lobbies, lobbies, lobby,
                 gather_tasks, sendState, sendArg, wire, run_lobby_calls, closeIdx,
                 closed, active>>
  /\ UNCHANGED aux

\* What one run of lines 214-229 leaves behind, from the first line's arrival
\* to the task's next suspension or its end: there is no await between them.
After(pc1, err1, md, table, heap, l) ==
  [pc |-> pc1, err |-> err1, metadata |-> md, table |-> table, heap |-> heap, lobby |-> l]

handle_client(c, line) ==
  LET msg == read_message(line) IN
  IF msg.raised
  THEN After("failed", "JSONDecodeError", metadata[c], building_lobbies, lobbies, 0)
  ELSE
    LET md == msg.value
        lobby_id == GetItem(md, "lobby")
    IN
    IF lobby_id.raised
    THEN After("failed", lobby_id.error, md, building_lobbies, lobbies, 0)
    ELSE
      LET table1 == setdefault(building_lobbies, lobby_id.value, Len(lobbies) + 1)
          heap1 == IF lobby_id.value \in DOMAIN building_lobbies THEN lobbies
                   ELSE Append(lobbies, HijackLobby(lobby_id.value))
          l == table1[lobby_id.value]
          name == GetItem(md, "name")
      IN
      IF name.raised
      THEN After("failed", name.error, md, table1, heap1, l)
      ELSE
        LET added == add_remote(heap1[l].members, name.value, c)
            heap2 == [heap1 EXCEPT ![l].members = added.members]
        IN
        IF added.raised
        THEN After("failed", "Duplicate name in lobby", md, table1, heap2, l)
        ELSE IF NotReady(heap2[l].members)
        THEN After("returned", NoError, md, table1, heap2, l)
        ELSE After("gather", NoError, md, RemoveFromPending(table1, lobby_id.value), heap2, l)

\* The first line of stream c arrives (or its input ends) and the task runs
\* on: the handshake, the join, the completion check and, for a complete
\* lobby, the removal from the table and the creation of one
\* send_starting_metadata coroutine per member, handed to asyncio.gather.
HandleClient(c) ==
  /\ pc[c] = "handshake"
  /\ \A d \in Conns : d < c => pc[d] \notin {"unconnected", "handshake"}
  /\ \E line \in Lines :
       LET r == handle_client(c, line)
           md == [metadata EXCEPT ![c] = r.metadata]
           members == IF r.pc = "gather" THEN r.heap[r.lobby].members ELSE <<>>
           started == Remotes(members)
       IN
       /\ pc' = [pc EXCEPT ![c] = r.pc]
       /\ err' = [err EXCEPT ![c] = r.err]
       /\ metadata' = md
       /\ building_lobbies' = r.table
       /\ lobbies' = r.heap
       /\ lobby' = [lobby EXCEPT ![c] = r.lobby]
       /\ active' = IF r.pc = "gather" THEN active \cup {r.lobby} ELSE active
       /\ gather_tasks' = [gather_tasks EXCEPT ![c] = started]
       /\ sendState' = [m \in Conns |-> IF m \in started THEN "scheduled" ELSE sendState[m]]
       /\ sendArg' = [m \in Conns |->
                        IF m \in started THEN OtherNames(members, m, md) ELSE sendArg[m]]
       /\ closed' \in (IF r.pc = "failed" THEN AfterTaskError(c) ELSE {closed})
  /\ UNCHANGED <<starting_metadata, wire, run_lobby_calls, closeIdx>>
  /\ UNCHANGED aux

\* A send_starting_metadata coroutine runs up to its drain(): it refuses a
\* second roster, and otherwise sets _starting_metadata and writes the line.
SendStartingMetadata(m) ==
  /\ sendState[m] = "scheduled"
  /\ LET r == send_starting_metadata(starting_metadata[m], sendArg[m]) IN
     /\ starting_metadata' = [starting_metadata EXCEPT ![m] = r.starting_metadata]
     /\ wire' = [wire EXCEPT ![m] = @ \o r.written]
     /\ sendState' = [sendState EXCEPT ![m] = IF r.raised THEN "failed" ELSE "draining"]
  /\ UNCHANGED <<pc, err, metadata, building_lobbies, lobbies, lobby, gather_tasks,
                 sendArg, run_lobby_calls, closeIdx, closed, active>>
  /\ UNCHANGED aux

\* writer.drain() returns, or raises because the connection was lost.
Drain(m) ==
  /\ sendState[m] = "draining"
  /\ \E outcome \in {"done", "failed"} : sendState' = [sendState EXCEPT ![m] = outcome]
  /\ UNCHANGED <<pc, err, metadata, starting_metadata, building_lobbies, lobbies, lobby,
                 gather_tasks, sendArg, wire, run_lobby_calls, closeIdx, closed, active>>
  /\ UNCHANGED aux

AllSendsDone_Any(tasks) == \E m \in tasks : sendState[m] = "done"

\* asyncio.gather returns once every awaitable has returned ...
AllSendsDone(tasks) == \A m \in tasks : sendState[m] = "done"

\* ... and raises as soon as one of them has raised (the others run on).
SomeSendFailed(tasks) == \E m \in tasks : sendState[m] = "failed"

\* The lobby handed to run_lobby: the members it holds at the call.
RunLobbyArg(l) == [lobby |-> l, members |-> lobbies[l].members]

\* The gather returns and the task calls handler.run_lobby(lobby).
GatherReturns(c) ==
  /\ pc[c] = "gather"
  /\ AllSendsDone(gather_tasks[c])
  /\ pc' = [pc EXCEPT ![c] = "running"]
  /\ run_lobby_calls' = Append(run_lobby_calls, RunLobbyArg(lobby[c]))
  /\ UNCHANGED <<err, metadata, starting_metadata, building_lobbies, lobbies, lobby,
                 gather_tasks, sendState, sendArg, wire, closeIdx, closed, active>>
  /\ UNCHANGED aux

\* The gather raises: the exception leaves _handle_client.
GatherRaises(c) ==
  /\ pc[c] = "gather"
  /\ SomeSendFailed(gather_tasks[c])
  /\ pc' = [pc EXCEPT ![c] = "failed"]
  /\ err' = [err EXCEPT ![c] = "send failed"]
  /\ closed' \in AfterTaskError(c)
  /\ UNCHANGED <<metadata, starting_metadata, building_lobbies, lobbies, lobby,
                 gather_tasks, sendState, sendArg, wire, run_lobby_calls, closeIdx, active>>
  /\ UNCHANGED aux

\* handler.run_lobby returns: the task starts "for i in lobby".
RunLobbyReturns(c) ==
  /\ pc[c] = "running"
  /\ pc' = [pc EXCEPT ![c] = "closing"]
  /\ closeIdx' = [closeIdx EXCEPT ![c] = 1]
  /\ UNCHANGED <<err, metadata, starting_metadata, building_lobbies, lobbies, lobby,
                 gather_tasks, sendState, sendArg, wire, run_lobby_calls, closed, active>>
  /\ UNCHANGED aux

\* handler.run_lobby raises: with the try/finally commented out the
\* exception leaves _handle_client before the loop.
RunLobbyRaises(c) ==
  /\ pc[c] = "running"
  /\ pc' = [pc EXCEPT ![c] = "failed"]
  /\ err' = [err EXCEPT ![c] = "run_lobby raised"]
  /\ closed' \in AfterTaskError(c)
  /\ UNCHANGED <<metadata, starting_metadata, building_lobbies, lobbies, lobby,
                 gather_tasks, sendState, sendArg, wire, run_lobby_calls, closeIdx, active>>
  /\ UNCHANGED aux

\* The runner, which holds the lobby and its clients, calls
\* send_starting_metadata on a member again.
SendStartingMetadataAgain(c, m) ==
  /\ pc[c] = "running"
  /\ m \in Remotes(lobbies[lobby[c]].members)
  /\ m \notin resent
  /\ \E others \in {<<>>, sendArg[m]} :
       LET r == send_starting_metadata(starting_metadata[m], others) IN
       /\ starting_metadata' = [starting_metadata EXCEPT ![m] = r.starting_metadata]
       /\ wire' = [wire EXCEPT ![m] = @ \o r.written]
  /\ resent' = resent \cup {m}
  /\ UNCHANGED <<pc, err, metadata, building_lobbies, lobbies, lobby, gather_tasks,
                 sendState, sendArg, run_lobby_calls, closeIdx, closed, active,
                 client_sm, sock, run_pc, listeners, current, checks, peer_closed>>

\* One "await i.close()" of the loop: writer.close(), then wait_closed(),
\* which returns or raises the error the connection was lost with.
CloseMember(c) ==
  /\ pc[c] = "closing"
  /\ LET members == lobbies[lobby[c]].members
         i == members[closeIdx[c]].remote
     IN
     \/ /\ closed' = closed \cup {i}
        /\ closeIdx' = [closeIdx EXCEPT ![c] = @ + 1]
        /\ pc' = [pc EXCEPT ![c] = IF closeIdx[c] = Len(members) THEN "done" ELSE "closing"]
        /\ UNCHANGED err
     \/ /\ closed' \in {closed \cup {i} \cup s : s \in AfterTaskError(c)}
        /\ pc' = [pc EXCEPT ![c] = "failed"]
        /\ err' = [err EXCEPT ![c] = "close failed"]
        /\ UNCHANGED closeIdx
  /\ UNCHANGED <<metadata, starting_metadata, building_lobbies, lobbies, lobby,
                 gather_tasks, sendState, sendArg, wire, run_lobby_calls, active>>
  /\ UNCHANGED aux

Next ==
  \/ \E c \in Conns : Accept(c)
  \/ \E c \in Conns : HandleClient(c)
  \/ \E m \in Conns : SendStartingMetadata(m)
  \/ \E m \in Conns : Drain(m)
  \/ \E c \in Conns : GatherReturns(c)
  \/ \E c \in Conns : GatherRaises(c)
  \/ \E c \in Conns : RunLobbyReturns(c)
  \/ \E c \in Conns : RunLobbyRaises(c)
  \/ \E c \in Conns : CloseMember(c)

Spec == Init /\ [][Next]_vars

\* The same with a runner that calls send_starting_metadata itself.
NextResend ==
  \/ Next
  \/ \E c, m \in Conns : SendStartingMetadataAgain(c, m)

SpecResend == Init /\ [][NextResend]_vars

----------------------------------------------------------------------------
(* The client side: HijackClient.connect *)

\* The remote end of stream c is a connect() call: the first line the server
\* read from it is the identity object of lines 142-145, newline included,
\* and the call is suspended in the read_message of line 128 or beyond it.
IsClient(c) == metadata[c] \in {Object(n, l) : n \in Names, l \in LobbyIds}

\* What readline() gives the client: the line the server wrote, or nothing
\* once the server's end of the stream is closed.
ClientLines(c) ==
  IF wire[c] # <<>> THEN {[payload |-> wire[c][1], newline |-> TRUE]}
  ELSE IF c \in closed THEN {[payload |-> NoRoster, newline |-> FALSE]}
  ELSE {}

\* read_message on the client: None at end of input, else the decoded line.
client_read_message(line) == IF ~line.newline THEN NoRoster ELSE line.payload

\* this._starting_metadata = await this.read_message(); return this
ClientConnected(c) ==
  /\ IsClient(c)
  /\ client_sm[c] = ClientPending
  /\ \E line \in ClientLines(c) :
       client_sm' = [client_sm EXCEPT ![c] = client_read_message(line)]
  /\ UNCHANGED <<pc, err, metadata, starting_metadata, building_lobbies, lobbies, lobby,
                 gather_tasks, sendState, sendArg, wire, run_lobby_calls, closeIdx, closed,
                 active, sock, run_pc, listeners, resent, current, checks, peer_closed>>

NextClient ==
  \/ Next
  \/ \E c \in Conns : ClientConnected(c)

SpecClient == Init /\ [][NextClient]_vars

----------------------------------------------------------------------------
(* HijackServer.run and HijackServer.stop *)

\* What run() and stop() leave alone.
handling == <<pc, err, metadata, starting_metadata, building_lobbies, lobbies, lobby,
              gather_tasks, sendState, sendArg, wire, run_lobby_calls, closeIdx, closed,
              active, client_sm, resent, current, checks, peer_closed>>

\* A listener is named after the run() call whose start_server created it.
OpenListeners == {r \in DOMAIN listeners : listeners[r] = "open"}

\* if self._sock is not None: raise Exception("Server is already running")
\* and, when the test passes, the call suspends in asyncio.start_server
\* with _sock still None.
RunCalled(r) ==
  /\ run_pc[r] = "idle"
  /\ run_pc' = [run_pc EXCEPT ![r] = IF sock # 0 THEN "Server is already running"
                                    ELSE "start_server"]
  /\ UNCHANGED <<sock, listeners, handling>>

\* asyncio.start_server returns a listening server, which line 241 stores in
\* _sock over whatever is there; start_serving finds it serving and returns
\* at once, and the call suspends in wait_closed. The address is
\* ("0.0.0.0", port): with port 0 every call gets a socket of its own.
StartServerReturns(r) ==
  /\ run_pc[r] = "start_server"
  /\ listeners' = [q \in DOMAIN listeners \cup {r} |->
                     IF q = r THEN "open" ELSE listeners[q]]
  /\ sock' = r
  /\ run_pc' = [run_pc EXCEPT ![r] = "wait_closed"]
  /\ UNCHANGED handling

\* asyncio.start_server raises OSError (address in use): another listener
\* holds the port. _sock is not assigned.
StartServerRaises(r) ==
  /\ run_pc[r] = "start_server"
  /\ OpenListeners # {}
  /\ run_pc' = [run_pc EXCEPT ![r] = "OSError"]
  /\ UNCHANGED <<sock, listeners, handling>>

\* stop(): self._sock.close(); _sock keeps the closed server.
Stop ==
  /\ sock # 0
  /\ listeners[sock] = "open"
  /\ listeners' = [listeners EXCEPT ![sock] = "closed"]
  /\ UNCHANGED <<sock, run_pc, handling>>

\* await self._sock.wait_closed() of line 243 returns and run() with it.
RunReturns(r) ==
  /\ run_pc[r] = "wait_closed"
  /\ listeners[r] = "closed"
  /\ run_pc' = [run_pc EXCEPT ![r] = "returned"]
  /\ UNCHANGED <<sock, listeners, handling>>

NextRun ==
  \/ \E r \in Runs : RunCalled(r)
  \/ \E r \in Runs : StartServerReturns(r)
  \/ \E r \in Runs : StartServerRaises(r)
  \/ Stop
  \/ \E r \in Runs : RunReturns(r)

SpecRun == Init /\ [][NextRun]_vars

----------------------------------------------------------------------------
(* HijackServer._handle_client, one statement at a time *)

KeepsRunning_Awaits(c) == 0

\* Lines 216-226 are plain statements: setdefault, add_remote and
\* check_lobby_complete are ordinary calls and del is a statement, none of
\* them an await, so the task that executed one still has the event loop.
KeepsRunning(c) == c

\* The event loop can run task c: no other task is between two of its
\* suspension points.
Runnable(c) == current \in {0, c}

\* An exception leaves _handle_client.
TaskFails(c, e) ==
  /\ pc' = [pc EXCEPT ![c] = "failed"]
  /\ err' = [err EXCEPT ![c] = e]
  /\ closed' \in AfterTaskError(c)
  /\ current' = 0

\* remote = await HijackClient.finish_connect_server(reader, writer): the
\* first line arrives (or the input ends) and the task is resumed.
FinishConnect(c) ==
  /\ pc[c] = "handshake"
  /\ \A d \in Conns : d < c => pc[d] \notin {"unconnected", "handshake"}
  /\ Runnable(c)
  /\ \E line \in Lines :
       LET msg == read_message(line) IN
       IF msg.raised
       THEN TaskFails(c, "JSONDecodeError") /\ UNCHANGED metadata
       ELSE /\ metadata' = [metadata EXCEPT ![c] = msg.value]
            /\ pc' = [pc EXCEPT ![c] = "setdefault"]
            /\ current' = KeepsRunning(c)
            /\ UNCHANGED <<err, closed>>
  /\ UNCHANGED <<starting_metadata, building_lobbies, lobbies, lobby, gather_tasks,
                 sendState, sendArg, wire, run_lobby_calls, closeIdx, active, client_sm,
                 sock, run_pc, listeners, resent, checks, peer_closed>>

\* lobby = self._building_lobbies.setdefault(remote.lobby, HijackLobby(remote.lobby))
Setdefault(c) ==
  /\ pc[c] = "setdefault"
  /\ Runnable(c)
  /\ LET lobby_id == GetItem(metadata[c], "lobby") IN
     IF lobby_id.raised
     THEN TaskFails(c, lobby_id.error) /\ UNCHANGED <<building_lobbies, lobbies, lobby>>
     ELSE
       LET table1 == setdefault(building_lobbies, lobby_id.value, Len(lobbies) + 1) IN
       /\ building_lobbies' = table1
       /\ lobbies' = IF lobby_id.value \in DOMAIN building_lobbies THEN lobbies
                     ELSE Append(lobbies, HijackLobby(lobby_id.value))
       /\ lobby' = [lobby EXCEPT ![c] = table1[lobby_id.value]]
       /\ pc' = [pc EXCEPT ![c] = "add_remote"]
       /\ current' = KeepsRunning(c)
       /\ UNCHANGED <<err, closed>>
  /\ UNCHANGED <<metadata, starting_metadata, gather_tasks, sendState, sendArg, wire,
                 run_lobby_calls, closeIdx, active, client_sm, sock, run_pc, listeners,
                 resent, checks, peer_closed>>

\* lobby.add_remote(remote)
AddRemote(c) ==
  /\ pc[c] = "add_remote"
  /\ Runnable(c)
  /\ LET name == GetItem(metadata[c], "name") IN
     IF name.raised
     THEN TaskFails(c, name.error) /\ UNCHANGED lobbies
     ELSE
       LET added == add_remote(lobbies[lobby[c]].members, name.value, c) IN
       /\ lobbies' = [lobbies EXCEPT ![lobby[c]].members = added.members]
       /\ IF added.raised
          THEN TaskFails(c, "Duplicate name in lobby")
          ELSE /\ pc' = [pc EXCEPT ![c] = "check"]
               /\ current' = KeepsRunning(c)
               /\ UNCHANGED <<err, closed>>
  /\ UNCHANGED <<metadata, starting_metadata, building_lobbies, lobby, gather_tasks,
                 sendState, sendArg, wire, run_lobby_calls, closeIdx, active, client_sm,
                 sock, run_pc, listeners, resent, checks, peer_closed>>

\* if not self._handler.check_lobby_complete(lobby): return
Check(c) ==
  /\ pc[c] = "check"
  /\ Runnable(c)
  /\ checks' = [checks EXCEPT ![c] = @ + 1]
  /\ IF NotReady(lobbies[lobby[c]].members)
     THEN /\ pc' = [pc EXCEPT ![c] = "returned"]
          /\ current' = 0
          /\ UNCHANGED active
     ELSE /\ pc' = [pc EXCEPT ![c] = "del"]
          /\ current' = KeepsRunning(c)
          /\ active' = active \cup {lobby[c]}
  /\ UNCHANGED <<err, metadata, starting_metadata, building_lobbies, lobbies, lobby,
                 gather_tasks, sendState, sendArg, wire, run_lobby_calls, closeIdx, closed,
                 client_sm, sock, run_pc, listeners, resent, peer_closed>>

\* del self._building_lobbies[remote.lobby], and the task suspends in the
\* asyncio.gather of lines 228-229.
Del(c) ==
  /\ pc[c] = "del"
  /\ Runnable(c)
  /\ IF metadata[c].lobby \notin DOMAIN building_lobbies
     THEN /\ TaskFails(c, "KeyError")
          /\ UNCHANGED <<building_lobbies, gather_tasks, sendState, sendArg>>
     ELSE
       LET members == lobbies[lobby[c]].members
           started == Remotes(members)
       IN
       /\ building_lobbies' = RemoveFromPending(building_lobbies, metadata[c].lobby)
       /\ gather_tasks' = [gather_tasks EXCEPT ![c] = started]
       /\ sendState' = [m \in Conns |-> IF m \in started THEN "scheduled" ELSE sendState[m]]
       /\ sendArg' = [m \in Conns |->
                        IF m \in started THEN OtherNames(members, m, metadata) ELSE sendArg[m]]
       /\ pc' = [pc EXCEPT ![c] = "gather"]
       /\ current' = 0
       /\ UNCHANGED <<err, closed>>
  /\ UNCHANGED <<metadata, starting_metadata, lobbies, lobby, wire, run_lobby_calls,
                 closeIdx, active, client_sm, sock, run_pc, listeners, resent, checks,
                 peer_closed>>

\* The other tasks run when the event loop is free.
NextAtomic ==
  \/ current = 0 /\ \E c \in Conns : Accept(c)
  \/ \E c \in Conns : FinishConnect(c)
  \/ \E c \in Conns : Setdefault(c)
  \/ \E c \in Conns : AddRemote(c)
  \/ \E c \in Conns : Check(c)
  \/ \E c \in Conns : Del(c)
  \/ current = 0 /\ \E m \in Conns : SendStartingMetadata(m)
  \/ current = 0 /\ \E m \in Conns : Drain(m)
  \/ current = 0 /\ \E c \in Conns : GatherReturns(c)
  \/ current = 0 /\ \E c \in Conns : GatherRaises(c)
  \/ current = 0 /\ \E c \in Conns : RunLobbyReturns(c)
  \/ current = 0 /\ \E c \in Conns : RunLobbyRaises(c)
  \/ current = 0 /\ \E c \in Conns : CloseMember(c)

SpecAtomic == Init /\ [][NextAtomic]_vars

----------------------------------------------------------------------------
(* A peer goes away *)

\* The remote end of a member of a building lobby closes its stream (or its
\* input ends). The member's task has returned on line 221 and nothing reads
\* the stream: no statement of the server runs. A peer that goes away at
\* another moment shows as the end-of-input first line of HandleClient or as
\* the failing outcome of Drain and CloseMember.
PeerCloses(c) ==
  /\ pc[c] = "returned"
  /\ lobby[c] \notin active
  /\ c \notin peer_closed
  /\ peer_closed' = peer_closed \cup {c}
  /\ UNCHANGED <<pc, err, metadata, starting_metadata, building_lobbies, lobbies, lobby,
                 gather_tasks, sendState, sendArg, wire, run_lobby_calls, closeIdx, closed,
                 active, client_sm, sock, run_pc, listeners, resent, current, checks>>

\* The steps up to the writing of the rosters. What a task does once its
\* gather is over (the runner, the close loop) changes no lobby and reads no
\* peer's state; those steps are in Next.
NextPeer ==
  \/ \E c \in Conns : Accept(c)
  \/ \E c \in Conns : HandleClient(c)
  \/ \E m \in Conns : SendStartingMetadata(m)
  \/ \E m \in Conns : Drain(m)
  \/ \E c \in Conns : PeerCloses(c)

SpecPeer == Init /\ [][NextPeer]_vars

----------------------------------------------------------------------------
(* Properties *)

MembersOf(l) == Remotes(lobbies[l].members)

RejectionErrors == {"JSONDecodeError", "TypeError", "KeyError", "Duplicate name in lobby"}

\* The task of c ended before c was inserted into a lobby.
Rejected(c) == pc[c] = "failed" /\ err[c] \in RejectionErrors

\* add_remote returned for c: c was inserted into the lobby its task holds.
Joined(c) == pc[c] \notin {"unconnected", "handshake"} /\ ~Rejected(c)

JoinedLobby(l) == {c \in Conns : Joined(c) /\ lobby[c] = l}

\* C1: once check_lobby_complete has returned True for a lobby, no step
\* changes that lobby again (no connection is inserted into it), and a
\* connection that joins afterwards, whatever the tasks of the completed
\* lobby are doing, is put into a lobby that is not active; when every lobby
\* created so far under the id it presents is active, that lobby is one
\* created by this very step, registered in the pending table under the id.
C1_NoJoinIntoActiveLobby ==
  [][ /\ \A l \in active : l \in DOMAIN lobbies' /\ lobbies'[l] = lobbies[l]
      /\ \A c \in Conns :
           (pc[c] = "handshake" /\ pc'[c] \in {"returned", "gather"}) =>
             /\ lobby'[c] \notin active
             /\ (\A l \in DOMAIN lobbies :
                    lobbies[l].lobby_id = metadata'[c].lobby => l \in active)
                => /\ lobby'[c] = Len(lobbies) + 1
                   /\ Len(lobbies') = Len(lobbies) + 1
                   /\ lobbies'[lobby'[c]] =
                        [lobby_id |-> metadata'[c].lobby,
                         members |-> <<[key |-> metadata'[c].name, remote |-> c]>>]
                   /\ metadata'[c].lobby \in DOMAIN building_lobbies'
                   /\ building_lobbies'[metadata'[c].lobby] = lobby'[c]
    ]_vars

\* A connection has joined a building lobby under the id of an active lobby
\* whose roster broadcast is still in progress.
C1_Witness ==
  \E c \in Conns : \E l \in active :
    /\ Joined(c)
    /\ lobby[c] \notin active
    /\ lobby[c] > l
    /\ lobbies[lobby[c]].lobby_id = lobbies[l].lobby_id
    /\ building_lobbies[lobbies[l].lobby_id] = lobby[c]
    /\ \E m \in MembersOf(l) : sendState[m] \in {"scheduled", "draining"}

\* C2: every line the server has written to a member m during the handshake
\* is {"state": "starting", "others": X} where X lists, once each, exactly
\* the names of the other members of m's lobby: not m's own name, no name
\* from another lobby, no peer missing. A member whose send has written has
\* exactly one such line.
C2_RosterIsTheOthers ==
  \A m \in Conns :
    /\ \A i \in DOMAIN wire[m] :
         /\ wire[m][i].state = "starting"
         /\ Joined(m)
         /\ lobby[m] \in active
         /\ LET X == wire[m][i].others IN
            /\ {X[k] : k \in DOMAIN X}
                 = {metadata[x].name : x \in MembersOf(lobby[m]) \ {m}}
            /\ Len(X) = Cardinality(MembersOf(lobby[m]) \ {m})
            /\ metadata[m].name \notin {X[k] : k \in DOMAIN X}
    /\ sendState[m] \in {"draining", "done"} => Len(wire[m]) = 1
    /\ Len(wire[m]) <= 1

\* alice has been sent the roster ["bob"] while a third connection is a
\* member of another lobby.
C2_Witness ==
  \E m, x \in Conns :
    /\ metadata[m].name = "alice"
    /\ wire[m] = <<[state |-> "starting", others |-> <<"bob">>]>>
    /\ Joined(x)
    /\ lobby[x] # lobby[m]

\* C3: whenever run_lobby has been called for a lobby, the roster send to
\* every member of that lobby has completed: none is pending, none failed.
C3_RunnerAfterAllSends ==
  /\ \A i \in DOMAIN run_lobby_calls :
       \A m \in Remotes(run_lobby_calls[i].members) \cup MembersOf(run_lobby_calls[i].lobby) :
         sendState[m] = "done"
  /\ \A c \in Conns :
       pc[c] \in {"running", "closing", "done"} =>
         \A m \in MembersOf(lobby[c]) : sendState[m] = "done"

\* A runner is running.
C3_Witness ==
  \E c \in Conns : pc[c] = "running" /\ Len(run_lobby_calls) = 1

\* C4: a connection for which a roster send has been created (and so any
\* connection whose send has started) is not a member of any lobby held by
\* the pending table, and the lobby of its task is not in the table.
C4_RemovedBeforeAnySend ==
  \A m \in Conns :
    sendState[m] # "none" =>
      \A k \in DOMAIN building_lobbies :
        /\ m \notin MembersOf(building_lobbies[k])
        /\ building_lobbies[k] # lobby[m]

\* A roster send is in progress while the pending table holds a lobby.
C4_Witness ==
  \E m \in Conns :
    /\ sendState[m] = "draining"
    /\ DOMAIN building_lobbies # {}

RunnerInvoked(c) ==
  \/ pc[c] \in {"running", "closing", "done"}
  \/ pc[c] = "failed" /\ err[c] \in {"run_lobby raised", "close failed"}

\* C5: run_lobby is called at most once per lobby; a task that has got past
\* the gather has called it exactly once for its lobby; and the lobby passed
\* holds exactly the connections that joined that lobby, LobbySize of them.
C5_RunnerOncePerLobby ==
  /\ \A i, j \in DOMAIN run_lobby_calls :
       run_lobby_calls[i].lobby = run_lobby_calls[j].lobby => i = j
  /\ \A i \in DOMAIN run_lobby_calls :
       LET call == run_lobby_calls[i] IN
       /\ call.lobby \in active
       /\ call.members = lobbies[call.lobby].members
       /\ Remotes(call.members) = JoinedLobby(call.lobby)
       /\ Cardinality(Remotes(call.members)) = LobbySize
  /\ \A c \in Conns :
       RunnerInvoked(c) <=>
         \E i \in DOMAIN run_lobby_calls :
           /\ run_lobby_calls[i].lobby = lobby[c]
           /\ run_lobby_calls[i].members[LobbySize].remote = c

\* The runner has been called with alice and bob as members, and the task
\* that called it has finished.
C5_Witness ==
  \E c \in Conns :
    /\ pc[c] = "done"
    /\ Len(run_lobby_calls) = 1
    /\ {metadata[m].name : m \in Remotes(run_lobby_calls[1].members)} = {"alice", "bob"}

\* C6: when the task that ran the runner has ended, the runner having
\* returned or raised, every member of the lobby has been closed.
C6_ClosedAfterRunner ==
  \A c \in Conns :
    (pc[c] = "done" \/ (pc[c] = "failed" /\ err[c] = "run_lobby raised")) =>
      MembersOf(lobby[c]) \subseteq closed

\* C7: when a close in the close-all loop has failed, all the members of the
\* lobby have been closed all the same.
C7_CloseFailureSkipsNobody ==
  \A c \in Conns :
    (pc[c] = "failed" /\ err[c] = "close failed") =>
      MembersOf(lobby[c]) \subseteq closed

\* C8: a first message that is not a well-formed identity object makes the
\* task fail and leaves the pending table and every lobby as they were.
C8_MalformedLeavesTable ==
  [][ \A c \in Conns :
        (pc[c] = "handshake" /\ pc'[c] # "handshake"
           /\ (metadata'[c] \notin {Object(n, l) : n \in Names, l \in LobbyIds})) =>
          /\ pc'[c] = "failed"
          /\ building_lobbies' = building_lobbies
          /\ lobbies' = lobbies
    ]_vars

\* C9: a step that rejects a connection as a duplicate member changes
\* neither the pending table nor any lobby (names, the connection each name
\* maps to, order), and the rejected connection is a member of no lobby and
\* of no lobby handed to the runner.
C9_DuplicateLeavesLobby ==
  [][ \A c \in Conns :
        err'[c] = "Duplicate name in lobby" =>
          /\ pc[c] = "handshake" =>
               /\ building_lobbies' = building_lobbies
               /\ lobbies' = lobbies
               /\ metadata'[c].name \in Keys(lobbies[lobby'[c]].members)
          /\ \A l \in DOMAIN lobbies' : c \notin Remotes(lobbies'[l].members)
          /\ \A i \in DOMAIN run_lobby_calls' :
               c \notin Remotes(run_lobby_calls'[i].members)
    ]_vars

\* A connection was rejected as a duplicate and the members already in the
\* lobby have since completed it and been handed to the runner.
C9_Witness ==
  \E c \in Conns : \E i \in DOMAIN run_lobby_calls :
    /\ err[c] = "Duplicate name in lobby"
    /\ run_lobby_calls[i].lobby = lobby[c]
    /\ Len(run_lobby_calls[i].members) = LobbySize

\* C10: the step that rejects a connection closes that connection's stream
\* and no other.
C10_RejectedIsClosed ==
  [][ \A c \in Conns :
        (pc[c] = "handshake" /\ pc'[c] = "failed") => closed' = closed \cup {c}
    ]_vars

\* C11: a lobby id is a key of the pending table exactly when a lobby with
\* that id exists that some connection has joined and that has not reached
\* completion; the table holds no lobby without a member and no lobby that
\* has been completed or handed to the runner.
C11_TableIffBuilding ==
  /\ \A id \in LobbyIds :
       id \in DOMAIN building_lobbies <=>
         \E l \in DOMAIN lobbies :
           /\ lobbies[l].lobby_id = id
           /\ lobbies[l].members # <<>>
           /\ l \notin active
  /\ \A id \in DOMAIN building_lobbies :
       /\ lobbies[building_lobbies[id]].members # <<>>
       /\ building_lobbies[id] \notin active
       /\ \A i \in DOMAIN run_lobby_calls : run_lobby_calls[i].lobby # building_lobbies[id]

\* The runner of c's lobby has returned.
RunnerReturned(c) ==
  \/ pc[c] \in {"closing", "done"}
  \/ pc[c] = "failed" /\ err[c] = "close failed"

C16_NotReadyJustReturns ==
  [][ \A c \in Conns :
        /\ (/\ pc[c] = "handshake"
            /\ lobby'[c] # 0
            /\ c \in Remotes(lobbies'[lobby'[c]].members)
            /\ ~check_lobby_complete(lobbies'[lobby'[c]].members))
           => /\ pc'[c] = "returned"
              /\ wire' = wire
              /\ sendState' = sendState
              /\ starting_metadata' = starting_metadata
              /\ closed' = closed
              /\ run_lobby_calls' = run_lobby_calls
              /\ active' = active
              /\ metadata'[c].lobby \in DOMAIN building_lobbies'
              /\ building_lobbies'[metadata'[c].lobby] = lobby'[c]
        /\ pc[c] = "returned" =>
             /\ pc'[c] = "returned"
             /\ lobby'[c] = lobby[c]
             /\ c \in Remotes(lobbies'[lobby[c]].members)
    ]_vars

\* A task has returned on an incomplete lobby, which is still building.
C16_Witness ==
  \E c \in Conns :
    /\ pc[c] = "returned"
    /\ lobby[c] \notin active
    /\ building_lobbies[metadata[c].lobby] = lobby[c]
    /\ wire[c] = <<>>

\* C19, as the result of a run that has come to its end without the runner
\* raising and without a close failing: every member of every lobby removed
\* at completion has been closed.
C19_CompletedLobbyEndsClosed ==
  ((~ENABLED Next) /\ \A c \in Conns : err[c] \notin {"run_lobby raised", "close failed"})
    => \A l \in active : MembersOf(l) \subseteq closed

\* C17: _starting_metadata is unset for as long as the connection's lobby is
\* building, is the roster of the lobby once the connection's send has run,
\* and no step changes it, or writes to the stream again, once it is set: a
\* second send_starting_metadata raises and writes nothing. No connection is
\* ever sent more than one roster.
C17_RosterSetOnce ==
  [][ \A m \in Conns :
        /\ starting_metadata[m] # NoRoster =>
             /\ starting_metadata'[m] = starting_metadata[m]
             /\ wire'[m] = wire[m]
        /\ (lobby'[m] = 0 \/ lobby'[m] \notin active') =>
             /\ starting_metadata'[m] = NoRoster
             /\ wire'[m] = <<>>
        /\ sendState'[m] \in {"draining", "done"} =>
             starting_metadata'[m] = StartingMetadata(sendArg'[m])
        /\ starting_metadata'[m] # NoRoster => wire'[m] = <<starting_metadata'[m]>>
        /\ Len(wire'[m]) <= 1
    ]_vars

\* A second send_starting_metadata has been attempted on a member that holds
\* its roster and has been sent it once.
C17_Witness ==
  \E m \in resent :
    /\ starting_metadata[m] = StartingMetadata(sendArg[m])
    /\ wire[m] = <<starting_metadata[m]>>
    /\ sendArg[m] # <<>>

\* C13: a client whose connect() has returned is a member of a lobby that has
\* been removed from the pending table, and has been sent its roster.
C13_ConnectReturnsOnActiveLobby ==
  \A c \in Conns :
    client_sm[c] # ClientPending =>
      /\ Joined(c)
      /\ lobby[c] \in active
      /\ \A id \in DOMAIN building_lobbies : building_lobbies[id] # lobby[c]
      /\ wire[c] # <<>>

\* C14: connect() never returns a client whose starting roster is unset.
C14_ConnectNeverReturnsUnset ==
  \A c \in Conns : client_sm[c] # ClientPending => client_sm[c] # NoRoster

\* The run() calls that got past the test of line 239.
PassedCheck == {r \in Runs : run_pc[r] \notin {"idle", "Server is already running"}}

\* C15: of the run() calls made on one server only the first gets past the
\* already-running test, and the server never has a second listener: every
\* later call fails with "Server is already running", also one made while
\* the first is suspended in start_server.
C15_SecondRunAlreadyRunning ==
  /\ Cardinality(PassedCheck) <= 1
  /\ Cardinality(DOMAIN listeners) <= 1
  /\ \A r \in Runs : run_pc[r] # "OSError"

\* Task c is between the first and the last statement of lines 216-226.
InSection(c) == pc[c] \in {"setdefault", "add_remote", "check", "del"}

\* The completion predicate is about to be evaluated for c's insertion: c is
\* the member added last, and the table maps the id to c's lobby.
C18_CheckFollowsInsertion ==
  \A c \in Conns :
    /\ pc[c] = "check" =>
         LET members == lobbies[lobby[c]].members IN
         /\ checks[c] = 0
         /\ members[Len(members)].remote = c
         /\ metadata[c].lobby \in DOMAIN building_lobbies
         /\ building_lobbies[metadata[c].lobby] = lobby[c]
    /\ pc[c] = "del" =>
         /\ checks[c] = 1
         /\ metadata[c].lobby \in DOMAIN building_lobbies
         /\ building_lobbies[metadata[c].lobby] = lobby[c]
         /\ check_lobby_complete(lobbies[lobby[c]].members)
    /\ checks[c] <= 1
    /\ (pc[c] \in {"returned", "gather"} /\ c \in MembersOf(lobby[c])) => checks[c] = 1

\* C18: from the look-up-or-create of the lobby to the removal from the
\* table the task of one connection is alone: every step taken while it is
\* in between is its own, so nothing touches the table in between, the
\* completion predicate is evaluated once, on the lobby as the insertion left
\* it, and the removal finds the id mapped to the lobby just completed.
C18_SectionIsAtomic ==
  /\ []C18_CheckFollowsInsertion
  /\ [][\A c \in Conns : InSection(c) => pc'[c] # pc[c]]_vars

\* A task is about to remove its lobby while another connection is waiting
\* for its first line.
C18_Witness ==
  \E c, d \in Conns :
    /\ pc[c] = "del"
    /\ pc[d] = "handshake"
    /\ lobbies[lobby[c]].members[1].remote # c

Range(seq) == {seq[i] : i \in DOMAIN seq}

\* A member whose peer has gone is still a member of its lobby, and a lobby
\* still in the table is short of members with every member counted.
C20_GoneMemberStays ==
  /\ \A c \in peer_closed : c \in MembersOf(lobby[c])
  /\ \A id \in DOMAIN building_lobbies :
       Len(lobbies[building_lobbies[id]].members) < LobbySize

\* What a step does about the members whose peer has gone.
C20_GoneMemberCounts ==
  /\ \A l \in DOMAIN lobbies :
       /\ l \in DOMAIN lobbies'
       /\ Len(lobbies'[l].members) >= Len(lobbies[l].members)
       /\ SubSeq(lobbies'[l].members, 1, Len(lobbies[l].members)) = lobbies[l].members
  /\ \A m \in Conns :
       (sendState[m] # "scheduled" /\ sendState'[m] = "scheduled") =>
         \A c \in MembersOf(lobby'[m]) \ {m} : metadata'[c].name \in Range(sendArg'[m])
  /\ \A d \in Conns : \A c \in peer_closed :
       ( /\ pc[d] = "handshake"
         /\ pc'[d] # "handshake"
         /\ lobby[c] \notin active
         /\ metadata'[d] \in {Object(n, l) : n \in Names, l \in LobbyIds}
         /\ metadata'[d].lobby = lobbies[lobby[c]].lobby_id
         /\ metadata'[d].name = metadata[c].name )
       => /\ pc'[d] = "failed"
          /\ err'[d] = "Duplicate name in lobby"
          /\ lobbies' = lobbies
          /\ building_lobbies' = building_lobbies

\* C20: no step takes a member out of a lobby. A member of a building lobby
\* whose peer has closed the stream stays in the lobby under its name: the
\* completion predicate counts it, the rosters of the other members list it,
\* and a later connection with its name and lobby id is rejected as a
\* duplicate.
C20_MembershipNeverShrinks ==
  /\ []C20_GoneMemberStays
  /\ [][C20_GoneMemberCounts]_vars

\* A lobby was completed with a member whose peer had gone: the other
\* member's roster lists it, and a connection that presented its name was
\* rejected.
C20_Witness ==
  \E c \in peer_closed : \E m, d \in Conns :
    /\ lobby[c] \in active
    /\ m # c
    /\ m \in MembersOf(lobby[c])
    /\ metadata[c].name \in Range(sendArg[m])
    /\ err[d] = "Duplicate name in lobby"
    /\ lobby[d] = lobby[c]
    /\ metadata[d].name = metadata[c].name

====
